---- MODULE Spec2Model ----
(***************************************************************************)
(* tinycss.decoding: decoding a stylesheet from bytes to Unicode.          *)
(*                                                                         *)
(* Byte strings are sequences over 0..255, Unicode strings (decoded text   *)
(* and encoding names alike) are sequences of code points.  Python's None  *)
(* is the one-element sequence None, which is no byte string and no text.  *)
(***************************************************************************)
EXTENDS Integers, Sequences, FiniteSets, TLC

None == << -1 >>

\* what a decoder yields on bytes that are not valid under its encoding
Malformed == << -2 >>

----------------------------------------------------------------------------
(* Sequence helpers (Python slicing, str.startswith, str.replace).         *)

RECURSIVE Flatten(_)
Flatten(ss) == IF ss = << >> THEN << >> ELSE Head(ss) \o Flatten(Tail(ss))

StartsWith(s, p) == Len(s) >= Len(p) /\ \A i \in 1..Len(p) : s[i] = p[i]

\* s[start::step], start counted from 0 as in Python
SliceFrom(s, start, step) ==
    [k \in 1..((Len(s) - start + step - 1) \div step) |-> s[start + (k - 1) * step + 1]]

Remove(s, c) == SelectSeq(s, LAMBDA x : x # c)

\* str.lower() on the characters an ASCII decode with 'replace' can yield
LowerChar(c) == IF c \in 65..90 THEN c + 32 ELSE c
Lower(s) == [i \in 1..Len(s) |-> LowerChar(s[i])]

----------------------------------------------------------------------------
(* The decode primitive bytes.decode(encoding) of line 74: codec lookup by *)
(* name (LookupError when unknown) and the strict decoders of the codecs   *)
(* the model uses.                                                         *)

IsAlnumOrDot(c) == c \in 48..57 \/ c \in 65..90 \/ c \in 97..122 \/ c = 46

\* the codec registry's name normalisation: lower case, every run of
\* characters that are neither alphanumeric nor '.' becomes one '_', and
\* leading and trailing runs are dropped
RECURSIVE NormalizeFrom(_, _, _, _)
NormalizeFrom(name, i, punct, acc) ==
    IF i > Len(name) THEN acc
    ELSE IF IsAlnumOrDot(name[i])
         THEN NormalizeFrom(name, i + 1, FALSE,
                  (IF punct /\ acc # << >> THEN Append(acc, 95) ELSE acc)
                      \o << LowerChar(name[i]) >>)
         ELSE NormalizeFrom(name, i + 1, TRUE, acc)

NormalizeEncoding(name) == NormalizeFrom(name, 1, FALSE, << >>)

\* normalised names and aliases of the codecs of the model
CodecAliases ==
    [ ascii     |-> { <<97, 115, 99, 105, 105>>,                      \* ascii
                      <<117, 115, 95, 97, 115, 99, 105, 105>> },      \* us_ascii
      latin_1   |-> { <<108, 97, 116, 105, 110, 49>>,                 \* latin1
                      <<108, 97, 116, 105, 110, 95, 49>>,             \* latin_1
                      <<105, 115, 111, 95, 56, 56, 53, 57, 95, 49>>,  \* iso_8859_1
                      <<105, 115, 111, 56, 56, 53, 57, 95, 49>> },    \* iso8859_1
      utf_8     |-> { <<117, 116, 102, 95, 56>>,                      \* utf_8
                      <<117, 116, 102, 56>> },                        \* utf8
      utf_16    |-> { <<117, 116, 102, 95, 49, 54>>,                  \* utf_16
                      <<117, 116, 102, 49, 54>>,                      \* utf16
                      <<117, 49, 54>> },                              \* u16
      utf_16_be |-> { <<117, 116, 102, 95, 49, 54, 95, 98, 101>>,     \* utf_16_be
                      <<117, 116, 102, 95, 49, 54, 98, 101>> },       \* utf_16be
      utf_16_le |-> { <<117, 116, 102, 95, 49, 54, 95, 108, 101>>,    \* utf_16_le
                      <<117, 116, 102, 95, 49, 54, 108, 101>> },      \* utf_16le
      utf_32    |-> { <<117, 116, 102, 95, 51, 50>>,                  \* utf_32
                      <<117, 116, 102, 51, 50>>,                      \* utf32
                      <<117, 51, 50>> },                              \* u32
      utf_32_be |-> { <<117, 116, 102, 95, 51, 50, 95, 98, 101>>,     \* utf_32_be
                      <<117, 116, 102, 95, 51, 50, 98, 101>> },       \* utf_32be
      utf_32_le |-> { <<117, 116, 102, 95, 51, 50, 95, 108, 101>>,    \* utf_32_le
                      <<117, 116, 102, 95, 51, 50, 108, 101>> } ]     \* utf_32le

Registered(codecs) ==
    IF codecs = {} THEN "LookupError" ELSE CHOOSE c \in codecs : TRUE

\* the codec an encoding name selects, "LookupError" when there is none
Lookup(name) ==
    Registered({ c \in DOMAIN CodecAliases :
                   NormalizeEncoding(name) \in CodecAliases[c] })

DecodeAscii(b) ==
    IF \A i \in 1..Len(b) : b[i] < 128 THEN b ELSE Malformed

DecodeLatin1(b) == b

IsCont(x) == x \in 128..191

RECURSIVE DecodeUtf8From(_, _, _)
DecodeUtf8From(b, i, acc) ==
    IF i > Len(b) THEN acc
    ELSE LET c == b[i]
             n == Len(b)
         IN  IF c < 128 THEN DecodeUtf8From(b, i + 1, Append(acc, c))
             ELSE IF /\ c \in 194..223
                     /\ i + 1 <= n
                     /\ IsCont(b[i + 1])
                  THEN DecodeUtf8From(b, i + 2,
                           Append(acc, (c - 192) * 64 + (b[i + 1] - 128)))
             ELSE IF /\ c \in 224..239
                     /\ i + 2 <= n
                     /\ IsCont(b[i + 1])
                     /\ IsCont(b[i + 2])
                     /\ (c = 224 => b[i + 1] >= 160)
                     /\ (c = 237 => b[i + 1] <= 159)
                  THEN DecodeUtf8From(b, i + 3,
                           Append(acc, (c - 224) * 4096 + (b[i + 1] - 128) * 64
                                       + (b[i + 2] - 128)))
             ELSE IF /\ c \in 240..244
                     /\ i + 3 <= n
                     /\ IsCont(b[i + 1])
                     /\ IsCont(b[i + 2])
                     /\ IsCont(b[i + 3])
                     /\ (c = 240 => b[i + 1] >= 144)
                     /\ (c = 244 => b[i + 1] <= 143)
                  THEN DecodeUtf8From(b, i + 4,
                           Append(acc, (c - 240) * 262144 + (b[i + 1] - 128) * 4096
                                       + (b[i + 2] - 128) * 64 + (b[i + 3] - 128)))
             ELSE Malformed

DecodeUtf8(b) == DecodeUtf8From(b, 1, << >>)

Unit16(b, i, big) == IF big THEN b[i] * 256 + b[i + 1] ELSE b[i + 1] * 256 + b[i]

RECURSIVE DecodeUtf16From(_, _, _, _)
DecodeUtf16From(b, i, big, acc) ==
    IF i > Len(b) THEN acc
    ELSE IF i + 1 > Len(b) THEN Malformed
    ELSE LET u == Unit16(b, i, big)
         IN  IF u \in 55296..56319
             THEN IF i + 3 <= Len(b) /\ Unit16(b, i + 2, big) \in 56320..57343
                  THEN DecodeUtf16From(b, i + 4, big,
                           Append(acc, 65536 + (u - 55296) * 1024
                                       + (Unit16(b, i + 2, big) - 56320)))
                  ELSE Malformed
             ELSE IF u \in 56320..57343 THEN Malformed
             ELSE DecodeUtf16From(b, i + 2, big, Append(acc, u))

\* the most significant byte of a 32-bit unit, and the value of the other
\* three; a unit with a non-zero top byte is above U+10FFFF
Top32(b, i, big) == IF big THEN b[i] ELSE b[i + 3]

Low32(b, i, big) ==
    IF big THEN (b[i + 1] * 256 + b[i + 2]) * 256 + b[i + 3]
    ELSE (b[i + 2] * 256 + b[i + 1]) * 256 + b[i]

RECURSIVE DecodeUtf32From(_, _, _, _)
DecodeUtf32From(b, i, big, acc) ==
    IF i > Len(b) THEN acc
    ELSE IF i + 3 > Len(b) THEN Malformed
    ELSE LET u == Low32(b, i, big)
         IN  IF Top32(b, i, big) # 0 \/ u > 1114111 \/ u \in 55296..57343
             THEN Malformed
             ELSE DecodeUtf32From(b, i + 4, big, Append(acc, u))

\* "utf-16" and "utf-32" read a leading BOM to pick the byte order and
\* consume it; without one they use the platform's order, native
DecodeUtf16(b, native) ==
    IF StartsWith(b, <<255, 254>>) THEN DecodeUtf16From(b, 3, FALSE, << >>)
    ELSE IF StartsWith(b, <<254, 255>>) THEN DecodeUtf16From(b, 3, TRUE, << >>)
    ELSE DecodeUtf16From(b, 1, native = "big", << >>)

DecodeUtf32(b, native) ==
    IF StartsWith(b, <<255, 254, 0, 0>>) THEN DecodeUtf32From(b, 5, FALSE, << >>)
    ELSE IF StartsWith(b, <<0, 0, 254, 255>>) THEN DecodeUtf32From(b, 5, TRUE, << >>)
    ELSE DecodeUtf32From(b, 1, native = "big", << >>)

CodecDecode(codec, b, native) ==
    CASE codec = "ascii"     -> DecodeAscii(b)
      [] codec = "latin_1"   -> DecodeLatin1(b)
      [] codec = "utf_8"     -> DecodeUtf8(b)
      [] codec = "utf_16"    -> DecodeUtf16(b, native)
      [] codec = "utf_16_be" -> DecodeUtf16From(b, 1, TRUE, << >>)
      [] codec = "utf_16_le" -> DecodeUtf16From(b, 1, FALSE, << >>)
      [] codec = "utf_32"    -> DecodeUtf32(b, native)
      [] codec = "utf_32_be" -> DecodeUtf32From(b, 1, TRUE, << >>)
      [] codec = "utf_32_le" -> DecodeUtf32From(b, 1, FALSE, << >>)

\* what a strict decode comes to: the text, or UnicodeDecodeError
StrictDecode(t) ==
    IF t = Malformed THEN [kind |-> "UnicodeDecodeError", text |-> None]
    ELSE [kind |-> "text", text |-> t]

\* the decode once the codec is looked up.  The empty byte string decodes
\* to the empty text whatever the name, known or not.
DecodeWith(codec, b, native) ==
    IF b = << >> THEN [kind |-> "text", text |-> << >>]
    ELSE IF codec = "LookupError" THEN [kind |-> "LookupError", text |-> None]
    ELSE StrictDecode(CodecDecode(codec, b, native))

\* css_bytes.decode(encoding): the text, or the exception raised
BytesDecode(b, encoding, native) == DecodeWith(Lookup(encoding), b, native)

----------------------------------------------------------------------------
(* try_encoding, lines 72-83.                                              *)

BOM == 65279

\* lines 75-83, d being what css_bytes.decode(encoding) came to: the value
\* try_encoding returns ("text" with the text, or "None"), or the exception
\* that leaves it
AfterDecode(d, fallback) ==
    IF d.kind # "text"
    THEN IF fallback THEN [kind |-> "None", text |-> None]
         ELSE [kind |-> d.kind, text |-> None]
    \* css_unicode[0] of an empty string
    ELSE IF d.text = << >> THEN [kind |-> "IndexError", text |-> None]
    ELSE IF d.text[1] = BOM THEN [kind |-> "text", text |-> Tail(d.text)]
    ELSE [kind |-> "text", text |-> d.text]

try_encoding(css_bytes, encoding, fallback, native) ==
    AfterDecode(BytesDecode(css_bytes, encoding, native), fallback)

----------------------------------------------------------------------------
(* ENCODING_MAGIC_NUMBERS, lines 103-240.  A pattern is the bytes of its   *)
(* hex2re prefix, then (for the "as specified" entries) the capture group, *)
(* zero or more repetitions of unit matched lazily, and the bytes of the   *)
(* closing hex2re.  unit is a sequence of byte classes.                    *)

NotQuote == (0..255) \ {34}

Zero == {0}

AtCharset(bom_size, start, step, endianness, prefix, unit, closing) ==
    [bom_size |-> bom_size, has_at_charset |-> TRUE, encoding |-> None,
     start |-> start, step |-> step, endianness |-> endianness,
     prefix |-> prefix, unit |-> unit, closing |-> closing]

Fixed(bom_size, encoding, prefix) ==
    [bom_size |-> bom_size, has_at_charset |-> FALSE, encoding |-> encoding,
     start |-> 0, step |-> 1, endianness |-> << >>,
     prefix |-> prefix, unit |-> << >>, closing |-> << >>]

NoSuffix == << >>
SuffixBE == <<45, 66, 69>>   \* '-BE'
SuffixLE == <<45, 76, 69>>   \* '-LE'

Utf8BomAtCharset ==
    AtCharset(3, 0, 1, NoSuffix,
        <<239, 187, 191, 64, 99, 104, 97, 114, 115, 101, 116, 32, 34>>,
        << NotQuote >>, <<34, 59>>)

Utf8Bom ==
    Fixed(3, <<85, 84, 70, 45, 56>>,                             \* 'UTF-8'
        <<239, 187, 191>>)

AsciiAtCharset ==
    AtCharset(0, 0, 1, NoSuffix,
        <<64, 99, 104, 97, 114, 115, 101, 116, 32, 34>>,
        << NotQuote >>, <<34, 59>>)

Utf16BeBomAtCharset ==
    AtCharset(2, 1, 2, SuffixBE,
        <<254, 255, 0, 64, 0, 99, 0, 104, 0, 97, 0, 114, 0, 115, 0, 101,
          0, 116, 0, 32, 0, 34>>,
        << Zero, NotQuote >>, <<0, 34, 0, 59>>)

Utf16BeAtCharset ==
    AtCharset(0, 1, 2, SuffixBE,
        <<0, 64, 0, 99, 0, 104, 0, 97, 0, 114, 0, 115, 0, 101, 0, 116,
          0, 32, 0, 34>>,
        << Zero, NotQuote >>, <<0, 34, 0, 59>>)

Utf16LeBomAtCharset ==
    AtCharset(2, 0, 2, SuffixLE,
        <<255, 254, 64, 0, 99, 0, 104, 0, 97, 0, 114, 0, 115, 0, 101, 0,
          116, 0, 32, 0, 34, 0>>,
        << NotQuote, Zero >>, <<34, 0, 59, 0>>)

Utf16LeAtCharset ==
    AtCharset(0, 0, 2, SuffixLE,
        <<64, 0, 99, 0, 104, 0, 97, 0, 114, 0, 115, 0, 101, 0, 116, 0,
          32, 0, 34, 0>>,
        << NotQuote, Zero >>, <<34, 0, 59, 0>>)

Utf32BeBomAtCharset ==
    AtCharset(4, 3, 4, SuffixBE,
        <<0, 0, 254, 255, 0, 0, 0, 64, 0, 0, 0, 99, 0, 0, 0, 104, 0, 0, 0, 97,
          0, 0, 0, 114, 0, 0, 0, 115, 0, 0, 0, 101, 0, 0, 0, 116, 0, 0, 0, 32,
          0, 0, 0, 34>>,
        << Zero, Zero, Zero, NotQuote >>, <<0, 0, 0, 34, 0, 0, 0, 59>>)

Utf32BeAtCharset ==
    AtCharset(0, 3, 4, SuffixBE,
        <<0, 0, 0, 64, 0, 0, 0, 99, 0, 0, 0, 104, 0, 0, 0, 97,
          0, 0, 0, 114, 0, 0, 0, 115, 0, 0, 0, 101, 0, 0, 0, 116, 0, 0, 0, 32,
          0, 0, 0, 34>>,
        << Zero, Zero, Zero, NotQuote >>, <<0, 0, 0, 34, 0, 0, 0, 59>>)

Utf32LeBomAtCharset ==
    AtCharset(4, 0, 4, SuffixLE,
        <<255, 254, 0, 0, 64, 0, 0, 0, 99, 0, 0, 0, 104, 0, 0, 0, 97, 0, 0, 0,
          114, 0, 0, 0, 115, 0, 0, 0, 101, 0, 0, 0, 116, 0, 0, 0, 32, 0, 0, 0,
          34, 0, 0, 0>>,
        << NotQuote, Zero, Zero, Zero >>, <<34, 0, 0, 0, 59, 0, 0, 0>>)

Utf32LeAtCharset ==
    AtCharset(0, 0, 4, SuffixLE,
        <<64, 0, 0, 0, 99, 0, 0, 0, 104, 0, 0, 0, 97, 0, 0, 0,
          114, 0, 0, 0, 115, 0, 0, 0, 101, 0, 0, 0, 116, 0, 0, 0, 32, 0, 0, 0,
          34, 0, 0, 0>>,
        << NotQuote, Zero, Zero, Zero >>, <<34, 0, 0, 0, 59, 0, 0, 0>>)

Utf32BeBom ==
    Fixed(4, <<85, 84, 70, 45, 51, 50, 45, 66, 69>>,             \* 'UTF-32-BE'
        <<0, 0, 254, 255>>)

Utf32LeBom ==
    Fixed(4, <<85, 84, 70, 45, 51, 50, 45, 76, 69>>,             \* 'UTF-32-LE'
        <<255, 254, 0, 0>>)

Utf16BeBom ==
    Fixed(2, <<85, 84, 70, 45, 49, 54, 45, 66, 69>>,             \* 'UTF-16-BE'
        <<254, 255>>)

Utf16LeBom ==
    Fixed(2, <<85, 84, 70, 45, 49, 54, 45, 76, 69>>,             \* 'UTF-16-LE'
        <<255, 254>>)

\* the table with the bare UTF-16-LE mark tried before the UTF-32-LE one
MagicNumbersShortMarkFirst ==
    << Utf8BomAtCharset, Utf8Bom, AsciiAtCharset,
       Utf16BeBomAtCharset, Utf16BeAtCharset, Utf16LeBomAtCharset,
       Utf16LeAtCharset, Utf32BeBomAtCharset, Utf32BeAtCharset,
       Utf32LeBomAtCharset, Utf32LeAtCharset, Utf32BeBom,
       Utf16LeBom, Utf16BeBom, Utf32LeBom >>

ENCODING_MAGIC_NUMBERS ==
    << Utf8BomAtCharset, Utf8Bom, AsciiAtCharset,
       Utf16BeBomAtCharset, Utf16BeAtCharset, Utf16LeBomAtCharset,
       Utf16LeAtCharset, Utf32BeBomAtCharset, Utf32BeAtCharset,
       Utf32LeBomAtCharset, Utf32LeAtCharset, Utf32BeBom,
       Utf32LeBom, Utf16BeBom, Utf16LeBom >>

\* the bytes b[pos], b[pos+1], ... are the literal bytes lit
LiteralAt(b, pos, lit) ==
    /\ pos + Len(lit) - 1 <= Len(b)
    /\ \A k \in 1..Len(lit) : b[pos + k - 1] = lit[k]

\* the bytes at pos are one repetition of the capture group's unit
UnitAt(b, pos, unit) ==
    /\ pos + Len(unit) - 1 <= Len(b)
    /\ \A k \in 1..Len(unit) : b[pos + k - 1] \in unit[k]

\* the lazy repetition (unit)*? followed by closing: the position of the
\* closing bytes after the fewest repetitions that let them match, 0 when
\* the pattern does not match
RECURSIVE GroupEnd(_, _, _, _)
GroupEnd(b, pos, unit, closing) ==
    IF LiteralAt(b, pos, closing) THEN pos
    ELSE IF UnitAt(b, pos, unit) THEN GroupEnd(b, pos + Len(unit), unit, closing)
    ELSE 0

\* pattern(css_bytes): match.group(1) when it matches (the empty string for
\* a pattern without a group), None when it does not
PatternMatch(entry, b) ==
    IF ~LiteralAt(b, 1, entry.prefix) THEN None
    ELSE IF ~entry.has_at_charset THEN << >>
    ELSE LET end == GroupEnd(b, Len(entry.prefix) + 1, entry.unit, entry.closing)
         IN  IF end = 0 THEN None
             ELSE SubSeq(b, Len(entry.prefix) + 1, end - 1)

----------------------------------------------------------------------------
(* decode, lines 45-69.                                                    *)

\* bytes.decode('ascii', 'replace')
AsciiReplace(b) == [i \in 1..Len(b) |-> IF b[i] < 128 THEN b[i] ELSE 65533]

\* the endianness appended to the normalised name instead of the name
SpecifiedEncodingNormalised(entry, group) ==
    LET encoding == AsciiReplace(SliceFrom(group, entry.start, entry.step))
        key == Lower(Remove(Remove(encoding, 45), 95))
    IN  IF key \in { <<117, 116, 102, 49, 54>>, <<117, 116, 102, 51, 50>> }
        THEN key \o entry.endianness
        ELSE encoding

\* lines 54-58: the encoding an "as specified" entry names
SpecifiedEncoding(entry, group) ==
    LET encoding == AsciiReplace(SliceFrom(group, entry.start, entry.step))
    IN  IF Lower(Remove(Remove(encoding, 45), 95))
               \in { <<117, 116, 102, 49, 54>>,      \* 'utf16'
                     <<117, 116, 102, 51, 50>> }     \* 'utf32'
        THEN encoding \o entry.endianness
        ELSE encoding

AtCharsetQuote == <<64, 99, 104, 97, 114, 115, 101, 116, 32, 34>>   \* '@charset "'

\* the condition without the look at how the text begins
AcceptedAnyText(has_at_charset, r) ==
    /\ r.kind = "text"
    /\ r.text # << >>

\* lines 60-61: the condition under which the sniffed decode is returned;
\* r is what try_encoding handed back
Accepted(has_at_charset, r) ==
    /\ r.kind = "text"
    /\ r.text # << >>
    /\ ~(has_at_charset /\ ~StartsWith(r.text, AtCharsetQuote))

Call(tier, entry, encoding, r) ==
    [tier |-> tier, entry |-> entry, encoding |-> encoding,
     kind |-> r.kind, text |-> r.text]

\* lines 52-58: the encoding of a matched entry
MatchedEncoding(entry, group) ==
    IF entry.has_at_charset THEN SpecifiedEncoding(entry, group)
    ELSE entry.encoding

RECURSIVE SniffLoop(_, _, _, _)

\* the loop going on to the next entry where line 63 breaks
SniffTriedContinue(b, i, native, made, has_at_charset, encoding, r) ==
    LET now == Append(made, Call("sniffing", i, encoding, r))
    IN  IF r.kind \notin {"text", "None"}
        THEN [outcome |-> "raise", calls |-> now, text |-> None, error |-> r.kind]
        ELSE IF Accepted(has_at_charset, r)
        THEN [outcome |-> "return", calls |-> now, text |-> r.text, error |-> ""]
        ELSE SniffLoop(b, i + 1, native, now)

\* lines 59-63, r being what try_encoding handed back for entry i
SniffTried(b, i, native, made, has_at_charset, encoding, r) ==
    LET now == Append(made, Call("sniffing", i, encoding, r))
    IN  IF r.kind \notin {"text", "None"}
        THEN [outcome |-> "raise", calls |-> now, text |-> None, error |-> r.kind]
        ELSE IF Accepted(has_at_charset, r)
        THEN [outcome |-> "return", calls |-> now, text |-> r.text, error |-> ""]
        ELSE [outcome |-> "fall", calls |-> now, text |-> None, error |-> ""]

\* lines 49-63: the loop over the table from entry i on, made being the
\* try_encoding calls so far.  outcome is "return", "raise" or "fall"
\* (the loop ended, by break or by exhaustion).
SniffLoop(b, i, native, made) ==
    IF i > Len(ENCODING_MAGIC_NUMBERS)
    THEN [outcome |-> "fall", calls |-> made, text |-> None, error |-> ""]
    ELSE IF PatternMatch(ENCODING_MAGIC_NUMBERS[i], b) = None
    THEN SniffLoop(b, i + 1, native, made)
    ELSE SniffTried(b, i, native, made, ENCODING_MAGIC_NUMBERS[i].has_at_charset,
             MatchedEncoding(ENCODING_MAGIC_NUMBERS[i],
                             PatternMatch(ENCODING_MAGIC_NUMBERS[i], b)),
             try_encoding(b,
                 MatchedEncoding(ENCODING_MAGIC_NUMBERS[i],
                                 PatternMatch(ENCODING_MAGIC_NUMBERS[i], b)),
                 TRUE, native))

utf8 == <<117, 116, 102, 56>>   \* 'utf8'

\* Python truth value of an optional encoding name
Truthy(encoding) == encoding # None /\ encoding # << >>

VARIABLES css_bytes, protocol_encoding, linking_encoding, document_encoding,
          byteorder, pc, calls, returned, raised

vars == << css_bytes, protocol_encoding, linking_encoding, document_encoding,
           byteorder, pc, calls, returned, raised >>

args == << css_bytes, protocol_encoding, linking_encoding, document_encoding,
           byteorder >>

\* one candidate tried with "is not None" as the test (lines 45-48, 65-68)
TryCandidate(tier, encoding, next) ==
    IF Truthy(encoding)
    THEN \E r \in { try_encoding(css_bytes, encoding, TRUE, byteorder) } :
             /\ calls' = Append(calls, Call(tier, 0, encoding, r))
             /\ IF r.kind = "text"
                THEN pc' = "done" /\ returned' = r.text /\ raised' = raised
                ELSE IF r.kind = "None"
                THEN pc' = next /\ UNCHANGED << returned, raised >>
                ELSE pc' = "done" /\ raised' = r.kind /\ returned' = returned
    ELSE pc' = next /\ UNCHANGED << calls, returned, raised >>

ProtocolTier ==
    /\ pc = "protocol"
    /\ TryCandidate("protocol", protocol_encoding, "sniffing")
    /\ UNCHANGED args

SniffingTier ==
    /\ pc = "sniffing"
    /\ \E s \in { SniffLoop(css_bytes, 1, byteorder, << >>) } :
           /\ calls' = calls \o s.calls
           /\ pc' = IF s.outcome = "fall" THEN "linking" ELSE "done"
           /\ returned' = IF s.outcome = "return" THEN s.text ELSE returned
           /\ raised' = IF s.outcome = "raise" THEN s.error ELSE raised
    /\ UNCHANGED args

LinkingTier ==
    /\ pc = "linking"
    /\ TryCandidate("linking", linking_encoding, "document")
    /\ UNCHANGED args

DocumentTier ==
    /\ pc = "document"
    /\ TryCandidate("document", document_encoding, "fallback")
    /\ UNCHANGED args

FallbackTier ==
    /\ pc = "fallback"
    /\ \E r \in { try_encoding(css_bytes, utf8, FALSE, byteorder) } :
           /\ calls' = Append(calls, Call("fallback", 0, utf8, r))
           /\ pc' = "done"
           /\ returned' = IF r.kind = "text" THEN r.text ELSE returned
           /\ raised' = IF r.kind = "text" THEN raised ELSE r.kind
    /\ UNCHANGED args

Next == ProtocolTier \/ SniffingTier \/ LinkingTier \/ DocumentTier \/ FallbackTier

----------------------------------------------------------------------------
(* The calls the model makes.  A stylesheet is either a few chunks (a      *)
(* letter, a byte that is no UTF-8, the byte order marks) or an            *)
(* '@charset "name";' rule laid out as one of the table's "as specified"   *)
(* patterns expects it, followed by a few more bytes.                      *)

MaxChunks == 2
MaxTail == 1

RawChunks ==
    { <<65>>, <<233>>, <<239, 187, 191>>, <<254, 255>>, <<255, 254>>,
      <<0, 0, 254, 255>>, <<255, 254, 0, 0>> }

TailBytes == {65, 233}

RECURSIVE SeqsUpTo(_, _)
SeqsUpTo(S, n) ==
    IF n = 0 THEN { << >> }
    ELSE LET shorter == SeqsUpTo(S, n - 1)
         IN  shorter \cup { Append(s, x) : s \in shorter, x \in S }

RawInputs == { Flatten(cs) : cs \in SeqsUpTo(RawChunks, MaxChunks) }

\* names written in the rule
RuleNames ==
    { <<117, 116, 102, 45, 56>>,                   \* utf-8
      <<108, 97, 116, 105, 110, 49>>,              \* latin1
      <<85, 84, 70, 45, 49, 54>>,                  \* UTF-16
      <<117, 116, 102, 49, 54>>,                   \* utf16
      <<85, 84, 70, 95, 51, 50>>,                  \* UTF_32
      <<117, 116, 102, 45, 49, 54, 108, 101>>,     \* utf-16le
      <<120>>,                                     \* x, no encoding
      <<233>> }                                    \* a byte that is no ASCII

\* a layout: the byte order mark, the width of a character in bytes and
\* the byte order
Layouts ==
    { [bom |-> <<239, 187, 191>>, width |-> 1, big |-> TRUE],
      [bom |-> << >>, width |-> 1, big |-> TRUE],
      [bom |-> <<254, 255>>, width |-> 2, big |-> TRUE],
      [bom |-> << >>, width |-> 2, big |-> TRUE],
      [bom |-> <<255, 254>>, width |-> 2, big |-> FALSE],
      [bom |-> << >>, width |-> 2, big |-> FALSE],
      [bom |-> <<0, 0, 254, 255>>, width |-> 4, big |-> TRUE],
      [bom |-> << >>, width |-> 4, big |-> TRUE],
      [bom |-> <<255, 254, 0, 0>>, width |-> 4, big |-> FALSE],
      [bom |-> << >>, width |-> 4, big |-> FALSE] }

\* the characters below 256 of s, each as width bytes in the given order
Widen(s, width, big) ==
    [k \in 1..(Len(s) * width) |->
        LET c == s[((k - 1) \div width) + 1]
            j == (k - 1) % width
        IN  IF (big /\ j = width - 1) \/ (~big /\ j = 0) THEN c ELSE 0]

Rule(name) == AtCharsetQuote \o name \o <<34, 59>>

DeclaredInputs ==
    { l.bom \o Widen(Rule(n), l.width, l.big) \o t :
        l \in Layouts, n \in RuleNames, t \in SeqsUpTo(TailBytes, MaxTail) }

Inputs == RawInputs \cup DeclaredInputs

ProtocolEncodings == { None, <<117, 116, 102, 45, 56>>, <<120>> }            \* utf-8, x
LinkingEncodings == { None, <<108, 97, 116, 105, 110, 49>>,
                      <<97, 115, 99, 105, 105>> }                             \* latin1, ascii
DocumentEncodings == { None, <<117, 116, 102, 45, 56>>, <<120>> }            \* utf-8, x

Start ==
    /\ byteorder \in {"little", "big"}
    /\ pc = "protocol"
    /\ calls = << >>
    /\ returned = None
    /\ raised = ""

Init ==
    /\ css_bytes \in Inputs
    /\ protocol_encoding \in ProtocolEncodings
    /\ linking_encoding \in LinkingEncodings
    /\ document_encoding \in DocumentEncodings
    /\ Start

Spec == Init /\ [][Next]_vars

----------------------------------------------------------------------------
(* The round trip: texts that begin with an '@charset "name";' rule,       *)
(* encoded in the encoding the rule names and laid out in a form the       *)
(* table has an "as specified" entry for.                                  *)

MaxText == 2

TextChars == {65, 233, BOM}

Texts == SeqsUpTo(TextChars, MaxText)

EncodingNames ==
    { <<117, 116, 102, 45, 56>>,                   \* utf-8
      <<108, 97, 116, 105, 110, 49>>,              \* latin1
      <<85, 84, 70, 45, 49, 54>>,                  \* UTF-16
      <<117, 116, 102, 49, 54>>,                   \* utf16
      <<85, 84, 70, 95, 51, 50>>,                  \* UTF_32
      <<117, 116, 102, 45, 49, 54, 108, 101>> }    \* utf-16le

EncodeUtf8Char(c) ==
    IF c < 128 THEN << c >>
    ELSE IF c < 2048 THEN << 192 + (c \div 64), 128 + (c % 64) >>
    ELSE IF c < 65536
         THEN << 224 + (c \div 4096), 128 + ((c \div 64) % 64), 128 + (c % 64) >>
    ELSE << 240 + (c \div 262144), 128 + ((c \div 4096) % 64),
            128 + ((c \div 64) % 64), 128 + (c % 64) >>

\* characters of the Basic Multilingual Plane only
EncodeUtf16Char(c, big) ==
    IF big THEN << c \div 256, c % 256 >> ELSE << c % 256, c \div 256 >>

EncodeUtf32Char(c, big) ==
    IF big THEN << 0, c \div 65536, (c \div 256) % 256, c % 256 >>
    ELSE << c % 256, (c \div 256) % 256, c \div 65536, 0 >>

\* the layouts in which a text in the encoding name can be written
Suits(l, name) ==
    LET codec == Lookup(name)
    IN  CASE codec = "utf_8" -> l.width = 1
          [] codec \in {"latin_1", "ascii"} -> l.width = 1 /\ l.bom = << >>
          [] codec = "utf_16" -> l.width = 2
          [] codec = "utf_16_be" -> l.width = 2 /\ l.big
          [] codec = "utf_16_le" -> l.width = 2 /\ ~l.big
          [] codec = "utf_32" -> l.width = 4
          [] codec = "utf_32_be" -> l.width = 4 /\ l.big
          [] codec = "utf_32_le" -> l.width = 4 /\ ~l.big
          [] OTHER -> FALSE

\* the encoding can write every character of the text
Encodable(name, text) ==
    LET codec == Lookup(name)
    IN  \A i \in 1..Len(text) :
            /\ codec = "ascii" => text[i] < 128
            /\ codec = "latin_1" => text[i] < 256

EncodeText(l, name, text) ==
    l.bom \o Flatten([i \in 1..Len(text) |->
        IF l.width = 2 THEN EncodeUtf16Char(text[i], l.big)
        ELSE IF l.width = 4 THEN EncodeUtf32Char(text[i], l.big)
        ELSE IF Lookup(name) = "utf_8" THEN EncodeUtf8Char(text[i])
        ELSE << text[i] >>])

RoundTripCases ==
    { c \in [layout : Layouts, name : EncodingNames, rest : Texts] :
        Suits(c.layout, c.name) /\ Encodable(c.name, c.rest) }

RoundTripText(c) == Rule(c.name) \o c.rest

RoundTripBytes(c) == EncodeText(c.layout, c.name, RoundTripText(c))

\* each text with the bytes it is encoded to
RoundTrips ==
    { [text |-> RoundTripText(c), bytes |-> RoundTripBytes(c)] : c \in RoundTripCases }

InitRT ==
    /\ css_bytes \in { rt.bytes : rt \in RoundTrips }
    /\ protocol_encoding = None
    /\ linking_encoding = None
    /\ document_encoding = None
    /\ Start

SpecRT == InitRT /\ [][Next]_vars

----------------------------------------------------------------------------
(* Properties of decode.                                                   *)

Done == pc = "done"

\* the strict decode of the whole input under an encoding name
Decoded(encoding) == BytesDecode(css_bytes, encoding, byteorder)

\* a text less one leading U+FEFF, if it begins with one
WithoutBom(t) == IF t # << >> /\ t[1] = BOM THEN Tail(t) ELSE t

Matching(b) ==
    { e \in 1..Len(ENCODING_MAGIC_NUMBERS) :
        PatternMatch(ENCODING_MAGIC_NUMBERS[e], b) # None }

Least(S) == CHOOSE x \in S : \A y \in S : x <= y

SniffingCalls == { i \in 1..Len(calls) : calls[i].tier = "sniffing" }

\* the entries whose encoding is read from the @charset rule
DeclaredEntries == {1} \cup (3..11)

\* C1: when protocol_encoding is non-empty, known to the decode primitive
\* and the bytes are valid under it, decode returns the bytes decoded with
\* it, less one leading BOM, and calls nothing after the protocol tier.
ProtocolTierAlwaysWins ==
    ( /\ Done
      /\ Truthy(protocol_encoding)
      /\ Lookup(protocol_encoding) # "LookupError"
      /\ Decoded(protocol_encoding).kind = "text" )
    => /\ raised = ""
       /\ returned = WithoutBom(Decoded(protocol_encoding).text)
       /\ Len(calls) = 1
       /\ calls[1].tier = "protocol"

\* C2: a call either returns text or raises the decode error of the UTF-8
\* fallback, and raises only when the candidates of every earlier tier
\* were absent, failed or were rejected.
OnlyFallbackErrorEscapes ==
    Done =>
        \/ raised = "" /\ returned # None
        \/ /\ raised = "UnicodeDecodeError"
           /\ returned = None
           /\ calls[Len(calls)].tier = "fallback"
           /\ \A i \in 1..(Len(calls) - 1) : calls[i].tier # "fallback"
           /\ \A e \in {protocol_encoding, linking_encoding, document_encoding} :
                  ~Truthy(e) \/ Decoded(e).kind # "text"

\* the sniffed candidate: the encoding of the first matching entry
SniffedDeclared ==
    /\ Matching(css_bytes) # {}
    /\ Least(Matching(css_bytes)) \in DeclaredEntries

SniffedCandidate ==
    IF Matching(css_bytes) = {} THEN None
    ELSE LET entry == ENCODING_MAGIC_NUMBERS[Least(Matching(css_bytes))]
         IN  IF entry.has_at_charset
             THEN SpecifiedEncoding(entry, PatternMatch(entry, css_bytes))
             ELSE entry.encoding

Candidates ==
    << [encoding |-> protocol_encoding, declared |-> FALSE],
       [encoding |-> SniffedCandidate, declared |-> SniffedDeclared],
       [encoding |-> linking_encoding, declared |-> FALSE],
       [encoding |-> document_encoding, declared |-> FALSE] >>

\* a candidate that is present, decodes and passes the acceptance rule
Usable(c) ==
    /\ c.encoding # None
    /\ Decoded(c.encoding).kind = "text"
    /\ c.declared =>
           StartsWith(WithoutBom(Decoded(c.encoding).text), AtCharsetQuote)

\* C3: decode returns the decode of the first of protocol_encoding, the
\* sniffed encoding, linking_encoding, document_encoding that is present,
\* decodes and is accepted; with none, the UTF-8 decode of the bytes, or
\* the error of that decode.
PriorityChain ==
    Done =>
        LET usable == { k \in 1..4 : Usable(Candidates[k]) }
            fallback == Decoded(utf8)
        IN  IF usable # {}
            THEN /\ raised = ""
                 /\ returned =
                        WithoutBom(Decoded(Candidates[Least(usable)].encoding).text)
            ELSE IF fallback.kind = "text"
            THEN raised = "" /\ returned = WithoutBom(fallback.text)
            ELSE raised = "UnicodeDecodeError"

\* the tier that follows the sniffing tier
TierAfterSniffing ==
    IF Truthy(linking_encoding) THEN "linking"
    ELSE IF Truthy(document_encoding) THEN "document"
    ELSE "fallback"

\* C4: text returned from the sniffing tier through a declared entry
\* begins with '@charset "'; a decode under the declared name that does
\* not begin with it is dropped without an error and the call goes on to
\* linking_encoding, document_encoding and the fallback.
DeclaredAcceptanceRule ==
    \A i \in SniffingCalls :
        calls[i].entry \in DeclaredEntries =>
            /\ (Done /\ i = Len(calls) /\ raised = "") =>
                   /\ returned = calls[i].text
                   /\ StartsWith(returned, AtCharsetQuote)
            /\ (calls[i].kind = "text" /\ ~StartsWith(calls[i].text, AtCharsetQuote)) =>
                   IF i = Len(calls)
                   THEN /\ pc \in {"linking", "document", "fallback"}
                        /\ returned = None
                        /\ raised = ""
                   ELSE calls[i + 1].tier = TierAfterSniffing

DeclaredDecodeRejected ==
    /\ Done
    /\ raised = ""
    /\ \E i \in SniffingCalls :
           /\ calls[i].entry \in DeclaredEntries
           /\ calls[i].kind = "text"
           /\ ~StartsWith(calls[i].text, AtCharsetQuote)
           /\ i < Len(calls)

\* C5: when no protocol encoding is accepted and the first matching entry
\* has a fixed encoding under which the bytes decode, decode returns that
\* text less the BOM and never tries linking_encoding or document_encoding.
FixedDecodeAcceptedUnconditionally ==
    ( /\ Done
      /\ ~(Truthy(protocol_encoding) /\ Decoded(protocol_encoding).kind = "text")
      /\ Matching(css_bytes) # {}
      /\ ~SniffedDeclared
      /\ Decoded(SniffedCandidate).kind = "text" )
    => /\ raised = ""
       /\ returned = WithoutBom(Decoded(SniffedCandidate).text)
       /\ \A i \in 1..Len(calls) : calls[i].tier \notin {"linking", "document"}

\* C6: every trial decode that succeeds hands back the strict decode of
\* the whole input less exactly one leading U+FEFF when it begins with
\* one, and unchanged otherwise.
BomStrippedOnce ==
    \A i \in 1..Len(calls) :
        Decoded(calls[i].encoding).kind = "text" =>
            /\ calls[i].kind = "text"
            /\ calls[i].text = WithoutBom(Decoded(calls[i].encoding).text)

\* C7: a text that begins with an @charset rule, encoded in the encoding
\* the rule names in a declared-signature form and decoded with no
\* protocol, linking or document encoding, comes back unchanged.
RoundTrip ==
    Done =>
        \A rt \in RoundTrips :
            css_bytes = rt.bytes =>
                /\ raised = ""
                /\ returned = rt.text

\* the selector of a declared entry: which bytes of the group, counted
\* from 0, spell the name
NameSelector(e) ==
    CASE e \in {1, 3}   -> [offset |-> 0, every |-> 1]
      [] e \in {4, 5}   -> [offset |-> 1, every |-> 2]
      [] e \in {6, 7}   -> [offset |-> 0, every |-> 2]
      [] e \in {8, 9}   -> [offset |-> 3, every |-> 4]
      [] e \in {10, 11} -> [offset |-> 0, every |-> 4]

EndianSuffix(e) ==
    CASE e \in {1, 3}         -> << >>
      [] e \in {4, 5, 8, 9}   -> <<45, 66, 69>>     \* -BE
      [] e \in {6, 7, 10, 11} -> <<45, 76, 69>>     \* -LE

RECURSIVE Selected(_, _, _)
Selected(group, at, every) ==
    IF at > Len(group) THEN << >>
    ELSE << group[at] >> \o Selected(group, at + every, every)

DeclaredName(e, group) ==
    LET bytes == Selected(group, NameSelector(e).offset + 1, NameSelector(e).every)
        name == [k \in 1..Len(bytes) |-> IF bytes[k] < 128 THEN bytes[k] ELSE 65533]
        key == Lower(SelectSeq(name, LAMBDA c : c \notin {45, 95}))
    IN  IF key \in { <<117, 116, 102, 49, 54>>, <<117, 116, 102, 51, 50>> }
        THEN name \o EndianSuffix(e)
        ELSE name

\* a UTF-16BE BOM followed by '@charset "UTF-16";' in UTF-16BE
Utf16BeExample == <<254, 255>> \o Widen(Rule(<<85, 84, 70, 45, 49, 54>>), 2, TRUE)

\* C8: the encoding tried for a declared entry is the name its selector
\* picks from the capture group, decoded as ASCII with replacement, with
\* the entry's endian suffix appended when the name, lowercased and less
\* '-' and '_', is utf16 or utf32; the example is tried as UTF-16-BE.
DeclaredNameAndSuffix ==
    \A i \in SniffingCalls :
        calls[i].entry \in DeclaredEntries =>
            /\ calls[i].encoding =
                   DeclaredName(calls[i].entry,
                       PatternMatch(ENCODING_MAGIC_NUMBERS[calls[i].entry], css_bytes))
            /\ StartsWith(css_bytes, Utf16BeExample) =>
                   calls[i].encoding = <<85, 84, 70, 45, 49, 54, 45, 66, 69>>

Utf16BeExampleTried ==
    /\ Done
    /\ StartsWith(css_bytes, Utf16BeExample)
    /\ \E i \in SniffingCalls :
           /\ calls[i].entry = 4
           /\ calls[i].encoding = <<85, 84, 70, 45, 49, 54, 45, 66, 69>>
           /\ calls[i].kind = "text"

\* C9: the sniffing tier makes at most one trial decode, with the first
\* entry in table order that matches, and whatever comes of it the next
\* trial decode belongs to a later tier.
SniffingTriesOneEntry ==
    /\ Cardinality(SniffingCalls) <= 1
    /\ \A i \in SniffingCalls :
           /\ calls[i].entry = Least(Matching(css_bytes))
           /\ i < Len(calls) =>
                  calls[i + 1].tier \in {"linking", "document", "fallback"}

FirstEntryFailedSecondNotTried ==
    /\ Done
    /\ {1, 2} \subseteq Matching(css_bytes)
    /\ \E i \in SniffingCalls :
           /\ calls[i].entry = 1
           /\ calls[i].kind = "None"
           /\ i < Len(calls)

IsPrefix(p, q) == StartsWith(q, p)

Boms ==
    { <<239, 187, 191>>, <<254, 255>>, <<255, 254>>,
      <<0, 0, 254, 255>>, <<255, 254, 0, 0>> }

\* the number of BOM bytes a pattern begins with
LeadingBomLength(prefix) ==
    LET lens == { Len(m) : m \in { m \in Boms : IsPrefix(m, prefix) } }
    IN  IF lens = {} THEN 0 ELSE CHOOSE n \in lens : \A k \in lens : k <= n

\* two patterns whose literal beginnings agree as far as both go
CanOverlap(i, j) ==
    \/ IsPrefix(ENCODING_MAGIC_NUMBERS[i].prefix, ENCODING_MAGIC_NUMBERS[j].prefix)
    \/ IsPrefix(ENCODING_MAGIC_NUMBERS[j].prefix, ENCODING_MAGIC_NUMBERS[i].prefix)

\* of two entries that can match the same input the later is a bare mark
\* the earlier begins with, so that it matches whatever the earlier does
SpecificFirst ==
    \A i, j \in 1..Len(ENCODING_MAGIC_NUMBERS) :
        (i < j /\ CanOverlap(i, j)) =>
            /\ ~ENCODING_MAGIC_NUMBERS[j].has_at_charset
            /\ IsPrefix(ENCODING_MAGIC_NUMBERS[j].prefix,
                        ENCODING_MAGIC_NUMBERS[i].prefix)
            /\ \A b \in Inputs : i \in Matching(b) => j \in Matching(b)

NoEntryShadowed ==
    \A e \in 1..Len(ENCODING_MAGIC_NUMBERS) :
        \E b \in Inputs : Matching(b) # {} /\ Least(Matching(b)) = e

BomSizes ==
    \A e \in 1..Len(ENCODING_MAGIC_NUMBERS) :
        /\ ENCODING_MAGIC_NUMBERS[e].bom_size
               = LeadingBomLength(ENCODING_MAGIC_NUMBERS[e].prefix)
        /\ ENCODING_MAGIC_NUMBERS[e].bom_size \in {0, 2, 3, 4}

\* C10: the table has 15 entries; of two entries that can match the same
\* input the earlier is the more specific; every entry is the first match
\* of some input; bom_size is the number of BOM bytes the pattern begins
\* with.  In a call, every entry that matches besides the one tried comes
\* later in the table and is a bare mark the tried one begins with.
SignatureTableOrdering ==
    /\ Len(ENCODING_MAGIC_NUMBERS) = 15
    /\ SpecificFirst
    /\ NoEntryShadowed
    /\ BomSizes
    /\ \A i \in SniffingCalls :
           \A j \in Matching(css_bytes) \ {calls[i].entry} :
               /\ j > calls[i].entry
               /\ ~ENCODING_MAGIC_NUMBERS[j].has_at_charset
               /\ IsPrefix(ENCODING_MAGIC_NUMBERS[j].prefix,
                           ENCODING_MAGIC_NUMBERS[calls[i].entry].prefix)

SeveralEntriesMatch ==
    /\ Done
    /\ SniffingCalls # {}
    /\ Cardinality(Matching(css_bytes)) >= 3

====
